---- MODULE Spec2Model ----
(***************************************************************************)
(* Registration server of anon-coordination (server/src/main.rs).          *)
(*                                                                         *)
(* One actix-web process serves POST /registration.  Every request runs    *)
(* registration_handler: verify_noir_proof on the proof, then, only when   *)
(* it returned true, call_voprf_api on voprf_input.  The worker threads of *)
(* HttpServer run handlers of different requests in parallel, so the steps *)
(* of different requests interleave; one request's steps are sequential.   *)
(*                                                                         *)
(* The calls into the external crates (noir_rs, voprf, hex, rand, the file *)
(* system) are modelled by their signatures: a call returning Result may   *)
(* return Ok or Err; hex::decode / hex::encode are computed digit by       *)
(* digit; evaluate is a function of the key and the decoded bytes.         *)
(***************************************************************************)
EXTENDS Integers, Sequences, FiniteSets, TLC

\* ------------------------------------------------------------------ bounds
NumRequests == 2        \* requests the process serves in one behaviour
MaxLen == 2             \* longest voprf_input string
NumKeys == 2            \* distinct keys the random source can produce

Requests == 1..NumRequests

\* The characters a voprf_input is built from: two hex digits (one of them
\* the zero digit) and one character that is no hex digit.
InputChars == {"0", "a", "g"}

RECURSIVE StringsUpTo(_)
StringsUpTo(n) ==
    IF n = 0 THEN {<<>>}
    ELSE LET shorter == StringsUpTo(n - 1)
         IN  shorter \cup {Append(s, c) : s \in {t \in shorter : Len(t) = n - 1},
                                          c \in InputChars}

VoprfInputs == StringsUpTo(MaxLen)

\* A proof string is one of: a proof the circuit accepts, a well-formed
\* proof it rejects, and a string verify_ultra_honk cannot parse.
Proofs == {"accepting", "rejecting", "unparsable"}

Keys == 1..NumKeys

\* ------------------------------------------------------------ hex (crate)
LowerDigits == <<"0","1","2","3","4","5","6","7","8","9","a","b","c","d","e","f">>
UpperDigits == <<"0","1","2","3","4","5","6","7","8","9","A","B","C","D","E","F">>

\* hex's val(): the value of one hex digit, -1 for any other character.
HexVal(c) ==
    IF \E i \in 1..16 : LowerDigits[i] = c
    THEN (CHOOSE i \in 1..16 : LowerDigits[i] = c) - 1
    ELSE IF \E i \in 1..16 : UpperDigits[i] = c
    THEN (CHOOSE i \in 1..16 : UpperDigits[i] = c) - 1
    ELSE -1

\* hex::decode(blinded_hex): Err(OddLength) on an odd length, Err on the
\* first character that is no hex digit, otherwise one byte per pair.
HexDecode(s) ==
    IF Len(s) % 2 # 0
    THEN [ok |-> FALSE, bytes |-> <<>>, err |-> "OddLength"]
    ELSE IF \E i \in 1..Len(s) : HexVal(s[i]) < 0
    THEN [ok |-> FALSE, bytes |-> <<>>, err |-> "InvalidHexCharacter"]
    ELSE [ok |-> TRUE,
          bytes |-> [i \in 1..(Len(s) \div 2) |->
                        HexVal(s[2 * i - 1]) * 16 + HexVal(s[2 * i])],
          err |-> "none"]

\* Variant of HexEncode: the low digit of each byte written first.
HexEncodeSwapped(bytes) ==
    [i \in 1..(2 * Len(bytes)) |->
        IF i % 2 = 1 THEN LowerDigits[(bytes[(i + 1) \div 2] % 16) + 1]
                     ELSE LowerDigits[(bytes[i \div 2] \div 16) + 1]]

\* hex::encode(evaluation): two lower-case digits per byte.
HexEncode(bytes) ==
    [i \in 1..(2 * Len(bytes)) |->
        IF i % 2 = 1 THEN LowerDigits[(bytes[(i + 1) \div 2] \div 16) + 1]
                     ELSE LowerDigits[(bytes[i \div 2] % 16) + 1]]

\* ------------------------------------------------------ voprf (crate)
\* The secret scalar behind a generated key.
KeyScalar(k) == 2 * k + 1

\* Deserialisation of the blinded element inside evaluate: the empty
\* string and the all-zero (identity) encoding are no group elements.
IsGroupElement(bytes) == \E i \in 1..Len(bytes) : bytes[i] # 0

\* server.evaluate(&blinded_bytes): the scalar applied to the element,
\* Err when the bytes are no group element.
ServerEvaluate(k, bytes) ==
    IF IsGroupElement(bytes)
    THEN [ok |-> TRUE,
          val |-> [i \in 1..Len(bytes) |-> (KeyScalar(k) * bytes[i]) % 256]]
    ELSE [ok |-> FALSE, val |-> <<>>]

\* ---------------------------------------------------- noir_rs (crate)
\* verify_ultra_honk(proof, vk) for the verification key of the circuit.
VerifyUltraHonk(p) ==
    CASE p = "accepting"  -> [ok |-> TRUE,  verdict |-> TRUE]
      [] p = "rejecting"  -> [ok |-> TRUE,  verdict |-> FALSE]
      [] p = "unparsable" -> [ok |-> FALSE, verdict |-> FALSE]

\* ------------------------------------------------------------------ state
VARIABLES
    serverState,    \* "starting", "serving" or "exited" (main)
    pc,             \* pc[r]: where request r is in registration_handler
    proof,          \* req.proof of request r
    voprf_input,    \* req.voprf_input of request r
    bytecode,       \* local of verify_noir_proof: "none" or the circuit
    vk,             \* local of verify_noir_proof: "none" or the key
    verdict,        \* what verify_noir_proof returned: "none", "true", "false"
    log,            \* the line verify_noir_proof printed for request r
    blinded_bytes,  \* local of call_voprf_api
    server_setup,   \* local of call_voprf_api: 0, or the key generated
    evaluation,     \* local of call_voprf_api
    voprf_result,   \* what call_voprf_api returned
    response,       \* the HTTP response of request r
    calls           \* calls[r]: how often request r entered each callee

vars == <<serverState, pc, proof, voprf_input, bytecode, vk, verdict, log,
          blinded_bytes, server_setup, evaluation, voprf_result, response,
          calls>>

NoResult == [tag |-> "none", msg |-> "", val |-> <<>>]
NoResponse == [status |-> 0, text |-> "", detail |-> "", payload |-> <<>>]
NoCalls == [verify |-> 0, load |-> 0, srs |-> 0, getvk |-> 0, check |-> 0,
            voprf |-> 0, decode |-> 0, keygen |-> 0, evaluate |-> 0,
            encode |-> 0]

Init ==
    /\ serverState = "starting"
    /\ pc = [r \in Requests |-> "Idle"]
    /\ proof = [r \in Requests |-> "none"]
    /\ voprf_input = [r \in Requests |-> <<>>]
    /\ bytecode = [r \in Requests |-> "none"]
    /\ vk = [r \in Requests |-> "none"]
    /\ verdict = [r \in Requests |-> "none"]
    /\ log = [r \in Requests |-> "none"]
    /\ blinded_bytes = [r \in Requests |-> <<>>]
    /\ server_setup = [r \in Requests |-> 0]
    /\ evaluation = [r \in Requests |-> <<>>]
    /\ voprf_result = [r \in Requests |-> NoResult]
    /\ response = [r \in Requests |-> NoResponse]
    /\ calls = [r \in Requests |-> NoCalls]

Count(r, what) == [calls EXCEPT ![r][what] = @ + 1]

\* ------------------------------------------------------------------- main
\* main: build the HttpServer, bind 127.0.0.1:8080 (the ? returns the
\* error and the process exits), run.  Nothing else happens at start.
Main ==
    /\ serverState = "starting"
    /\ \E bound \in BOOLEAN :
          serverState' = IF bound THEN "serving" ELSE "exited"
    /\ UNCHANGED <<pc, proof, voprf_input, bytecode, vk, verdict, log,
                   blinded_bytes, server_setup, evaluation, voprf_result,
                   response, calls>>

\* ---------------------------------------------------- registration_handler
\* A request arrives with its JSON body; the handler's first statement
\* calls verify_noir_proof(&req.proof).
Receive(r) ==
    /\ serverState = "serving"
    /\ pc[r] = "Idle"
    /\ \E p \in Proofs, v \in VoprfInputs :
          /\ proof' = [proof EXCEPT ![r] = p]
          /\ voprf_input' = [voprf_input EXCEPT ![r] = v]
    /\ pc' = [pc EXCEPT ![r] = "LoadBytecode"]
    /\ calls' = Count(r, "verify")
    /\ UNCHANGED <<serverState, bytecode, vk, verdict, log, blinded_bytes,
                   server_setup, evaluation, voprf_result, response>>

\* ------------------------------------------------------- verify_noir_proof
\* Variants of ReturnFalse: the failed step logs its line and falls
\* through to the proof check; the failed step never returns.
ReturnFalseContinues(r, line) ==
    /\ verdict' = verdict
    /\ log' = [log EXCEPT ![r] = line]
    /\ pc' = [pc EXCEPT ![r] = "VerifyProof"]

ReturnFalseHangs(r, line) ==
    /\ verdict' = verdict
    /\ log' = [log EXCEPT ![r] = line]
    /\ pc' = [pc EXCEPT ![r] = "Hung"]

\* A failed step logs its line and returns false.
ReturnFalse(r, line) ==
    /\ verdict' = [verdict EXCEPT ![r] = "false"]
    /\ log' = [log EXCEPT ![r] = line]
    /\ pc' = [pc EXCEPT ![r] = "Verified"]

\* load_bytecode_from_file("../core/target/identity.json")
LoadBytecode(r) ==
    /\ pc[r] = "LoadBytecode"
    /\ calls' = Count(r, "load")
    /\ \E loaded \in BOOLEAN :
          IF loaded
          THEN /\ bytecode' = [bytecode EXCEPT ![r] = "identity"]
               /\ pc' = [pc EXCEPT ![r] = "SetupSrs"]
               /\ UNCHANGED <<verdict, log>>
          ELSE /\ ReturnFalse(r, "Error loading bytecode from file")
               /\ UNCHANGED bytecode
    /\ UNCHANGED <<serverState, proof, voprf_input, vk, blinded_bytes,
                   server_setup, evaluation, voprf_result, response>>

\* setup_srs_from_bytecode(&bytecode, None, false)
SetupSrs(r) ==
    /\ pc[r] = "SetupSrs"
    /\ calls' = Count(r, "srs")
    /\ \E done \in BOOLEAN :
          IF done
          THEN /\ pc' = [pc EXCEPT ![r] = "GetVk"]
               /\ UNCHANGED <<verdict, log>>
          ELSE ReturnFalse(r, "Error setting up SRS from bytecode")
    /\ UNCHANGED <<serverState, proof, voprf_input, bytecode, vk,
                   blinded_bytes, server_setup, evaluation, voprf_result,
                   response>>

\* get_honk_verification_key(&bytecode, None)
GetVk(r) ==
    /\ pc[r] = "GetVk"
    /\ calls' = Count(r, "getvk")
    /\ \E derived \in BOOLEAN :
          IF derived
          THEN /\ vk' = [vk EXCEPT ![r] = bytecode[r]]
               /\ pc' = [pc EXCEPT ![r] = "VerifyProof"]
               /\ UNCHANGED <<verdict, log>>
          ELSE /\ ReturnFalse(r, "Error getting verification key")
               /\ UNCHANGED vk
    /\ UNCHANGED <<serverState, proof, voprf_input, bytecode, blinded_bytes,
                   server_setup, evaluation, voprf_result, response>>

\* Variant of CheckVerdict: the Err arm yields true.
CheckVerdictErrAccepts(res) ==
    IF res.ok THEN (IF res.verdict THEN "true" ELSE "false") ELSE "true"

\* The match on verify_ultra_honk's result: Ok(verdict) => verdict,
\* Err(e) => false.
CheckVerdict(res) ==
    IF res.ok THEN (IF res.verdict THEN "true" ELSE "false") ELSE "false"

CheckLog(res) ==
    IF res.ok THEN "Proof verification verdict"
    ELSE "Error during proof verification"

\* verify_ultra_honk(proof_str.to_string(), vk)
VerifyProof(r) ==
    /\ pc[r] = "VerifyProof"
    /\ calls' = Count(r, "check")
    /\ LET res == VerifyUltraHonk(proof[r])
       IN  /\ verdict' = [verdict EXCEPT ![r] = CheckVerdict(res)]
           /\ log' = [log EXCEPT ![r] = CheckLog(res)]
    /\ pc' = [pc EXCEPT ![r] = "Verified"]
    /\ UNCHANGED <<serverState, proof, voprf_input, bytecode, vk,
                   blinded_bytes, server_setup, evaluation, voprf_result,
                   response>>

\* ---------------------------------------------------- registration_handler
\* Variants of ProofGate: the early return missing, and the test inverted.
ProofGateMissing(v) == TRUE
ProofGateInverted(v) == v = "false"

\* if !verify_noir_proof(&req.proof) { return BadRequest "Invalid proof" }
ProofGate(v) == v = "true"

\* Variant of BadRequest: the rejection sent with the server-error status.
BadRequestAsServerError ==
    [status |-> 500, text |-> "Invalid proof", detail |-> "", payload |-> <<>>]

BadRequest ==
    [status |-> 400, text |-> "Invalid proof", detail |-> "", payload |-> <<>>]

\* verify_noir_proof has returned: reject, or call call_voprf_api.
Dispatch(r) ==
    /\ pc[r] = "Verified"
    /\ IF ProofGate(verdict[r])
       THEN /\ pc' = [pc EXCEPT ![r] = "HexDecode"]
            /\ calls' = Count(r, "voprf")
            /\ UNCHANGED response
       ELSE /\ response' = [response EXCEPT ![r] = BadRequest]
            /\ pc' = [pc EXCEPT ![r] = "Responded"]
            /\ UNCHANGED calls
    /\ UNCHANGED <<serverState, proof, voprf_input, bytecode, vk, verdict,
                   log, blinded_bytes, server_setup, evaluation, voprf_result>>

\* ---------------------------------------------------------- call_voprf_api
\* Variants of ReturnErr: the failed call_voprf_api is started again; the
\* error is recorded but the function goes on to evaluate; the failing
\* call never returns.
ReturnErrRetries(r, message) ==
    /\ voprf_result' = [voprf_result EXCEPT
                           ![r] = [tag |-> "Err", msg |-> message, val |-> <<>>]]
    /\ pc' = [pc EXCEPT ![r] = "HexDecode"]

ReturnErrContinues(r, message) ==
    /\ voprf_result' = [voprf_result EXCEPT
                           ![r] = [tag |-> "Err", msg |-> message, val |-> <<>>]]
    /\ pc' = [pc EXCEPT ![r] = "Evaluate"]

\* An Err(..)? leaves call_voprf_api with that error.
ReturnErr(r, message) ==
    /\ voprf_result' = [voprf_result EXCEPT
                           ![r] = [tag |-> "Err", msg |-> message, val |-> <<>>]]
    /\ pc' = [pc EXCEPT ![r] = "VoprfReturned"]

\* Variant of DecodeContinues: the ? after map_err missing.
DecodeAlwaysContinues(dec) == TRUE

\* hex::decode(blinded_hex).map_err(..)? : whether the call goes on.
DecodeContinues(dec) == dec.ok

DecodeInput(r) ==
    /\ pc[r] = "HexDecode"
    /\ calls' = Count(r, "decode")
    /\ LET dec == HexDecode(voprf_input[r])
       IN  IF DecodeContinues(dec)
           THEN /\ blinded_bytes' = [blinded_bytes EXCEPT ![r] = dec.bytes]
                /\ pc' = [pc EXCEPT ![r] = "ServerSetup"]
                /\ UNCHANGED voprf_result
           ELSE /\ ReturnErr(r, "Invalid hex in blinded input")
                /\ UNCHANGED blinded_bytes
    /\ UNCHANGED <<serverState, proof, voprf_input, bytecode, vk, verdict,
                   log, server_setup, evaluation, response>>

\* ServerSetup::new(&mut OsRng): a fresh key from the random source, or
\* Err (generated = 0); VoprfServer::new(server_setup) cannot fail.
ServerSetupNew(r) ==
    /\ pc[r] = "ServerSetup"
    /\ calls' = Count(r, "keygen")
    /\ \E generated \in Keys \cup {0} :
          IF generated # 0
          THEN /\ server_setup' = [server_setup EXCEPT ![r] = generated]
               /\ pc' = [pc EXCEPT ![r] = "Evaluate"]
               /\ UNCHANGED voprf_result
          ELSE /\ ReturnErr(r, "Server setup error")
               /\ UNCHANGED server_setup
    /\ UNCHANGED <<serverState, proof, voprf_input, bytecode, vk, verdict,
                   log, blinded_bytes, evaluation, response>>

\* server.evaluate(&blinded_bytes).map_err(..)?
Evaluate(r) ==
    /\ pc[r] = "Evaluate"
    /\ calls' = Count(r, "evaluate")
    /\ LET res == ServerEvaluate(server_setup[r], blinded_bytes[r])
       IN  IF res.ok
           THEN /\ evaluation' = [evaluation EXCEPT ![r] = res.val]
                /\ pc' = [pc EXCEPT ![r] = "Encode"]
                /\ UNCHANGED voprf_result
           ELSE /\ ReturnErr(r, "Evaluation error")
                /\ UNCHANGED evaluation
    /\ UNCHANGED <<serverState, proof, voprf_input, bytecode, vk, verdict,
                   log, blinded_bytes, server_setup, response>>

\* Ok(hex::encode(evaluation))
Encode(r) ==
    /\ pc[r] = "Encode"
    /\ calls' = Count(r, "encode")
    /\ voprf_result' = [voprf_result EXCEPT
                           ![r] = [tag |-> "Ok", msg |-> "",
                                   val |-> HexEncode(evaluation[r])]]
    /\ pc' = [pc EXCEPT ![r] = "VoprfReturned"]
    /\ UNCHANGED <<serverState, proof, voprf_input, bytecode, vk, verdict,
                   log, blinded_bytes, server_setup, evaluation, response>>

\* ---------------------------------------------------- registration_handler
\* Variant of ResponseFor: the Err arm answers like a proof rejection.
ResponseForErrAsBadRequest(res) ==
    IF res.tag = "Ok"
    THEN [status |-> 200, text |-> "VOPRF evaluation result: ",
          detail |-> "", payload |-> res.val]
    ELSE BadRequest

\* match call_voprf_api(..) { Ok(result) => Ok().body(..),
\*                            Err(e) => InternalServerError().body(..) }
ResponseFor(res) ==
    IF res.tag = "Ok"
    THEN [status |-> 200, text |-> "VOPRF evaluation result: ",
          detail |-> "", payload |-> res.val]
    ELSE [status |-> 500, text |-> "Error calling VOPRF API: ",
          detail |-> res.msg, payload |-> <<>>]

Respond(r) ==
    /\ pc[r] = "VoprfReturned"
    /\ response' = [response EXCEPT ![r] = ResponseFor(voprf_result[r])]
    /\ pc' = [pc EXCEPT ![r] = "Responded"]
    /\ UNCHANGED <<serverState, proof, voprf_input, bytecode, vk, verdict,
                   log, blinded_bytes, server_setup, evaluation, voprf_result,
                   calls>>

\* ---------------------------------------------------------- specification
Next ==
    \/ Main
    \/ \E r \in Requests : Receive(r)
    \/ \E r \in Requests : LoadBytecode(r)
    \/ \E r \in Requests : SetupSrs(r)
    \/ \E r \in Requests : GetVk(r)
    \/ \E r \in Requests : VerifyProof(r)
    \/ \E r \in Requests : Dispatch(r)
    \/ \E r \in Requests : DecodeInput(r)
    \/ \E r \in Requests : ServerSetupNew(r)
    \/ \E r \in Requests : Evaluate(r)
    \/ \E r \in Requests : Encode(r)
    \/ \E r \in Requests : Respond(r)

Spec == Init /\ [][Next]_vars

TypeOK ==
    /\ serverState \in {"starting", "serving", "exited"}
    /\ \A r \in Requests :
          /\ pc[r] \in {"Idle", "LoadBytecode", "SetupSrs", "GetVk",
                        "VerifyProof", "Verified", "HexDecode", "ServerSetup",
                        "Evaluate", "Encode", "VoprfReturned", "Responded"}
          /\ verdict[r] \in {"none", "true", "false"}
          /\ response[r].status \in {0, 200, 400, 500}
          /\ server_setup[r] \in Keys \cup {0}

\* ------------------------------------------------------------ vocabulary
\* The outcomes of the orchestrator read off the HTTP response.
Terminal(r) == pc[r] = "Responded"
Done(r) == Terminal(r) /\ response[r].status = 200
Rejected(r) == Terminal(r) /\ response[r].status \in {400, 500}
ClientFault(r) == Terminal(r) /\ response[r].status = 400
ServerFault(r) == Terminal(r) /\ response[r].status = 500
InvalidProof(r) == Terminal(r) /\ response[r] = BadRequest

\* The positions inside call_voprf_api.
EvaluatorStages ==
    {"HexDecode", "ServerSetup", "Evaluate", "Encode", "VoprfReturned"}

\* Request r has entered the evaluator or holds something it produced.
EvaluatorTouched(r) ==
    \/ pc[r] \in EvaluatorStages
    \/ calls[r].voprf > 0 \/ calls[r].decode > 0 \/ calls[r].keygen > 0
    \/ calls[r].evaluate > 0 \/ calls[r].encode > 0
    \/ server_setup[r] # 0
    \/ evaluation[r] # <<>>
    \/ voprf_result[r] # NoResult
    \/ response[r].status \in {200, 500}

\* voprf_input is hexadecimal / is the encoding of a group element.
WellFormedHex(s) == HexDecode(s).ok
WellFormedElement(s) == HexDecode(s).ok /\ IsGroupElement(HexDecode(s).bytes)

\* The lines verify_noir_proof logs for a failed setup step.
ConfigurationErrors ==
    {"Error loading bytecode from file",
     "Error setting up SRS from bytecode",
     "Error getting verification key"}

VerifierFailures == ConfigurationErrors \cup {"Error during proof verification"}

\* ------------------------------------------------------------------ claims
\* C1: the evaluator (call_voprf_api and everything in it) is entered only
\* after verify_noir_proof returned true in the same request; a request
\* whose verification returned false never holds an evaluation result, an
\* evaluator return value, or a 200/500 response.
C1_EvaluationOnlyAfterVerification ==
    \A r \in Requests : EvaluatorTouched(r) => verdict[r] = "true"

C1_Witness ==
    \E r \in Requests :
        /\ Done(r) /\ verdict[r] = "true" /\ calls[r].evaluate = 1
        /\ \E q \in Requests : InvalidProof(q) /\ ~EvaluatorTouched(q)

\* C2: a request ends with 200 exactly when the verifier accepted its
\* proof and its voprf_input encodes a group element; nothing else (such
\* as the outcome of key generation) decides it.
C2_SuccessIffVerifiedAndWellFormed ==
    \A r \in Requests :
        Terminal(r) =>
            (Done(r) <=> (verdict[r] = "true" /\ WellFormedElement(voprf_input[r])))

\* C3: once the verifier has returned false the request goes straight to
\* the response 400 "Invalid proof": it is only ever waiting for that
\* response or holding it, the evaluator is never entered, and this is so
\* whatever voprf_input is.
C3_FalseVerdictRejectsDirectly ==
    \A r \in Requests :
        verdict[r] = "false" =>
            /\ pc[r] \in {"Verified", "Responded"}
            /\ Terminal(r) => InvalidProof(r)
            /\ ~EvaluatorTouched(r)
            /\ blinded_bytes[r] = <<>>

C3_Witness ==
    \E r \in Requests :
        /\ verdict[r] = "false" /\ InvalidProof(r)
        /\ ~WellFormedHex(voprf_input[r])

\* C4: no request generates key material (no request holds a key that was
\* generated while serving it), and all evaluate calls of the process use
\* one and the same key.
C4_KeyGeneratedOnceAtStart ==
    /\ \A r \in Requests : server_setup[r] = 0
    /\ \A r1, r2 \in Requests :
          (calls[r1].evaluate > 0 /\ calls[r2].evaluate > 0)
              => server_setup[r1] = server_setup[r2]

\* C5: two successful requests of the process that carry the same
\* voprf_input receive the same evaluation result.
C5_SameInputSameResult ==
    \A r1, r2 \in Requests :
        (Done(r1) /\ Done(r2) /\ voprf_input[r1] = voprf_input[r2])
            => response[r1].payload = response[r2].payload

\* C6: when the proof was accepted and call_voprf_api returned Err, the
\* response is the server-fault 500 "Error calling VOPRF API", never the
\* 400 "Invalid proof" of a proof rejection.
C6_EvaluatorFailureIsServerFault ==
    \A r \in Requests :
        (Terminal(r) /\ verdict[r] = "true" /\ voprf_result[r].tag = "Err")
            => /\ ServerFault(r)
               /\ response[r].text = "Error calling VOPRF API: "
               /\ response[r].detail = voprf_result[r].msg
               /\ ~InvalidProof(r)

C6_Witness ==
    \E r \in Requests :
        /\ ServerFault(r) /\ verdict[r] = "true"
        /\ voprf_result[r].msg = "Evaluation error"

\* C7: a voprf_input that is not hexadecimal makes call_voprf_api return
\* the invalid-hex error at once: no key is generated or held and the
\* evaluation function is not called in that request.
C7_MalformedHexFailsBeforeKey ==
    \A r \in Requests :
        (calls[r].decode > 0 /\ ~WellFormedHex(voprf_input[r]))
            => /\ pc[r] \in {"VoprfReturned", "Responded"}
               /\ voprf_result[r].tag = "Err"
               /\ voprf_result[r].msg = "Invalid hex in blinded input"
               /\ calls[r].keygen = 0
               /\ calls[r].evaluate = 0
               /\ server_setup[r] = 0
               /\ evaluation[r] = <<>>

C7_Witness ==
    \E r \in Requests :
        /\ Terminal(r) /\ calls[r].decode = 1
        /\ HexDecode(voprf_input[r]).err = "InvalidHexCharacter"
        /\ \E q \in Requests :
              /\ calls[q].decode = 1
              /\ HexDecode(voprf_input[q]).err = "OddLength"

\* C8: a request with an accepted proof and a non-hexadecimal voprf_input
\* is rejected for its input, not as "Invalid proof", and that rejection
\* is a client fault.
C8_InvalidInputIsClientFault ==
    \A r \in Requests :
        (Terminal(r) /\ verdict[r] = "true" /\ ~WellFormedHex(voprf_input[r]))
            => /\ ~InvalidProof(r)
               /\ response[r].detail = "Invalid hex in blinded input"
               /\ ClientFault(r)

\* C9: a request whose verification failed in circuit load, SRS setup or
\* key derivation ends with a server-fault response, never with the
\* client-fault "Invalid proof".
C9_ConfigurationErrorIsServerFault ==
    \A r \in Requests :
        (Terminal(r) /\ log[r] \in ConfigurationErrors)
            => ServerFault(r) /\ ~InvalidProof(r)

\* C10: a failure of circuit load, SRS setup, key derivation or of the
\* proof check makes verify_noir_proof return false; the request is then
\* answered with a rejection (the answer is pending and can be given, or
\* has been given), and the process keeps serving.
C10_VerifierFailureRejects ==
    \A r \in Requests :
        log[r] \in VerifierFailures
            => /\ verdict[r] = "false"
               /\ pc[r] \in {"Verified", "Responded"}
               /\ pc[r] = "Verified" => ENABLED Dispatch(r)
               /\ Terminal(r) => Rejected(r)
               /\ serverState = "serving"

C10_Witness ==
    \E r \in Requests :
        /\ Rejected(r) /\ log[r] = "Error during proof verification"
        /\ \E q \in Requests :
              Rejected(q) /\ log[q] = "Error setting up SRS from bytecode"

\* How often the process as a whole has entered a callee.
RECURSIVE TotalUpTo(_, _)
TotalUpTo(n, what) ==
    IF n = 0 THEN 0 ELSE calls[n][what] + TotalUpTo(n - 1, what)

TotalCalls(what) == TotalUpTo(NumRequests, what)

\* C11: the circuit is loaded once at process start and never while a
\* request is served: no request calls load_bytecode_from_file, so no
\* request can fail on loading it.
C11_CircuitLoadedOnlyAtStart ==
    \A r \in Requests :
        /\ calls[r].load = 0
        /\ log[r] # "Error loading bytecode from file"

\* C12: the SRS and the verification key are established at most once in
\* the process; later verify calls reuse them.
C12_SetupEstablishedAtMostOnce ==
    /\ TotalCalls("srs") <= 1
    /\ TotalCalls("getvk") <= 1

\* The response class a request's own inputs call for: 400 for a proof
\* the circuit does not accept, 200 for an accepted proof with a
\* well-formed element, 500 for an accepted proof with any other input.
ExpectedStatus(p, v) ==
    IF ~(VerifyUltraHonk(p).ok /\ VerifyUltraHonk(p).verdict) THEN 400
    ELSE IF WellFormedElement(v) THEN 200
    ELSE 500

\* C13: under every interleaving each request ends in the terminal state
\* its own proof and voprf_input determine, whatever else is going on.
C13_OutcomeDeterminedByOwnInputs ==
    \A r \in Requests :
        Terminal(r) =>
            response[r].status = ExpectedStatus(proof[r], voprf_input[r])

\* No callee has been entered more than once by request r.
EachAtMostOnce(r) ==
    \A what \in DOMAIN NoCalls : calls[r][what] <= 1

\* C14: within one request the verifier is invoked exactly once and the
\* evaluator (and each of its steps) at most once, and a request that has
\* its response keeps it: no step moves it out of the terminal state.
C14_NoRetry ==
    /\ [](\A r \in Requests :
             /\ EachAtMostOnce(r)
             /\ pc[r] # "Idle" => calls[r].verify = 1
             /\ Terminal(r) => (Done(r) \/ Rejected(r)))
    /\ [][\A r \in Requests :
             Terminal(r) => /\ pc'[r] = pc[r]
                            /\ response'[r] = response[r]
                            /\ calls'[r] = calls[r]]_vars

C14_Witness ==
    \E r, q \in Requests :
        /\ ServerFault(r) /\ calls[r].verify = 1 /\ calls[r].voprf = 1
        /\ InvalidProof(q) /\ calls[q].verify = 1 /\ calls[q].voprf = 0

\* The steps of the handler that serves request r.  The handler is
\* synchronous code on a worker thread (it has no await point), so once a
\* request has arrived its next step is always taken eventually.
RequestStep(r) ==
    \/ LoadBytecode(r) \/ SetupSrs(r) \/ GetVk(r) \/ VerifyProof(r)
    \/ Dispatch(r)
    \/ DecodeInput(r) \/ ServerSetupNew(r) \/ Evaluate(r) \/ Encode(r)
    \/ Respond(r)

FairSpec == Spec /\ \A r \in Requests : WF_vars(RequestStep(r))

\* C15: every request that has arrived eventually has its response (Done
\* or Rejected), whatever the other requests do.
C15_EveryRequestTerminates ==
    \A r \in Requests : (pc[r] # "Idle") ~> (Done(r) \/ Rejected(r))

C15_Witness ==
    \E r, q \in Requests :
        /\ Done(r)
        /\ Rejected(q) /\ log[q] \in ConfigurationErrors

\* C16: the payload of a 200 response is the hexadecimal text of the
\* evaluation of that same request: it decodes back to the bytes that
\* evaluate yields for the key used in the request and the decoded
\* voprf_input of the request, and exactly one evaluation produced it.
C16_PayloadIsOwnEvaluation ==
    \A r \in Requests :
        Done(r) =>
            /\ calls[r].evaluate = 1 /\ calls[r].encode = 1
            /\ server_setup[r] \in Keys
            /\ response[r].text = "VOPRF evaluation result: "
            /\ Len(response[r].payload) = Len(voprf_input[r])
            /\ \A i \in 1..Len(response[r].payload) :
                  \E d \in 1..16 : LowerDigits[d] = response[r].payload[i]
            /\ HexDecode(response[r].payload).ok
            /\ HexDecode(response[r].payload).bytes =
                  ServerEvaluate(server_setup[r],
                                 HexDecode(voprf_input[r]).bytes).val

C16_Witness ==
    \E r, q \in Requests :
        /\ Done(r) /\ Done(q)
        /\ voprf_input[r] # voprf_input[q]
        /\ server_setup[r] = server_setup[q]
        /\ response[r].payload # response[q].payload

\* C17: inside verify_noir_proof the steps run in the order load, SRS,
\* verification key, proof check; a step is entered only after the ones
\* before it succeeded in the same call, a failed step ends the call, and
\* the call returns true only when the proof check itself accepted.
C17_VerifierStepsInOrder ==
    \A r \in Requests :
        /\ calls[r].srs > 0 =>
              /\ calls[r].load = 1 /\ bytecode[r] # "none"
              /\ log[r] # "Error loading bytecode from file"
        /\ calls[r].getvk > 0 =>
              /\ calls[r].srs = 1
              /\ log[r] # "Error setting up SRS from bytecode"
        /\ calls[r].check > 0 =>
              /\ calls[r].getvk = 1 /\ vk[r] # "none"
              /\ log[r] \notin ConfigurationErrors
        /\ log[r] = "Error loading bytecode from file" => calls[r].srs = 0
        /\ log[r] = "Error setting up SRS from bytecode" => calls[r].getvk = 0
        /\ log[r] = "Error getting verification key" => calls[r].check = 0
        /\ verdict[r] = "true" =>
              /\ calls[r].check = 1
              /\ VerifyUltraHonk(proof[r]).ok
              /\ VerifyUltraHonk(proof[r]).verdict
              /\ log[r] = "Proof verification verdict"

C17_Witness ==
    \E r, q \in Requests :
        /\ verdict[r] = "true" /\ calls[r].check = 1
        /\ log[q] = "Error getting verification key"
        /\ proof[q] = "accepting" /\ verdict[q] = "false"

\* C18: a request has no response until it is terminal and then exactly
\* one, which is never replaced; it is 400 "Invalid proof" when the
\* verifier returned false (and then the evaluator returned nothing), 200
\* with the evaluator's Ok value, or 500 with the evaluator's Err, the
\* last two only when the verifier returned true.
C18_ExactlyOneOfThreeResponses ==
    /\ [](\A r \in Requests :
             /\ ~Terminal(r) => response[r] = NoResponse
             /\ Terminal(r) =>
                   \/ /\ response[r].status = 400
                      /\ response[r].text = "Invalid proof"
                      /\ verdict[r] = "false"
                      /\ voprf_result[r] = NoResult
                   \/ /\ response[r].status = 200
                      /\ verdict[r] = "true"
                      /\ voprf_result[r].tag = "Ok"
                      /\ response[r].payload = voprf_result[r].val
                   \/ /\ response[r].status = 500
                      /\ verdict[r] = "true"
                      /\ voprf_result[r].tag = "Err"
                      /\ response[r].detail = voprf_result[r].msg)
    /\ [][\A r \in Requests :
             response[r] # NoResponse => response'[r] = response[r]]_vars

C18_Witness ==
    \E r, q \in Requests :
        /\ Terminal(r) /\ response[r].status = 400 /\ proof[r] = "rejecting"
        /\ Terminal(q) /\ response[q].status = 500

\* C19: inside call_voprf_api the steps run in the order decode, key
\* setup, evaluate, encode; a step is entered only after the ones before
\* it succeeded, an Err ends the call at once (after a key-setup failure
\* evaluate is not called), and every Err is answered with the same
\* server-fault response class.
C19_EvaluatorStepsInOrder ==
    \A r \in Requests :
        /\ calls[r].keygen > 0 =>
              /\ calls[r].decode = 1 /\ WellFormedHex(voprf_input[r])
              /\ blinded_bytes[r] = HexDecode(voprf_input[r]).bytes
        /\ calls[r].evaluate > 0 =>
              /\ calls[r].keygen = 1 /\ server_setup[r] \in Keys
        /\ calls[r].encode > 0 =>
              /\ calls[r].evaluate = 1 /\ IsGroupElement(blinded_bytes[r])
        /\ voprf_result[r].tag = "Err" =>
              /\ pc[r] \in {"VoprfReturned", "Responded"}
              /\ calls[r].encode = 0
              /\ voprf_result[r].msg = "Invalid hex in blinded input"
                    => calls[r].keygen = 0
              /\ voprf_result[r].msg = "Server setup error"
                    => calls[r].evaluate = 0 /\ server_setup[r] = 0
              /\ voprf_result[r].msg = "Evaluation error"
                    => calls[r].evaluate = 1
              /\ Terminal(r) =>
                    /\ response[r].status = 500
                    /\ response[r].text = "Error calling VOPRF API: "

C19_Witness ==
    \E r, q \in Requests :
        /\ ServerFault(r) /\ voprf_result[r].msg = "Server setup error"
        /\ calls[r].evaluate = 0
        /\ ServerFault(q) /\ voprf_result[q].msg = "Invalid hex in blinded input"

====
